---- MODULE Spec2Model ----
(***************************************************************************)
(* Model of the GitHub GraphQL proxy: credential resolution                *)
(* (src/utils/auth.ts), the resolvers (src/schema/resolvers.ts), the       *)
(* upstream client and translators (src/services/githubService.ts) and the *)
(* error formatter (src/server.ts).                                        *)
(*                                                                         *)
(* Strings are sequences of one-character strings, so that the regular     *)
(* expressions of auth.ts are computed on their characters.  Messages are  *)
(* sequences of text pieces, concatenated as the code concatenates them.   *)
(***************************************************************************)
EXTENDS Integers, Sequences, FiniteSets, TLC

VARIABLES
    nodeEnv,    \* process.env.NODE_ENV, read-only after startup
    envToken,   \* process.env.GITHUB_TOKEN, read-only after startup
    pc,         \* position of the request being handled
    req,        \* the inbound request: operation, Authorization header, first
    token,      \* the credential resolved for the request
    exchanges,  \* number of upstream exchanges issued for the request
    sentAuth,   \* Authorization header value of the upstream exchange
    sentVars,   \* variables of the upstream exchange
    response,   \* what the upstream answered
    result,     \* what the resolver returned or threw
    reply,      \* what the caller receives for the field
    arg,        \* the argument of a function applied on its own
    ret,        \* what that function returned
    log,        \* the records written since startup or for the current request
    exitCode    \* whether the process has exited, and with which code

vars == <<nodeEnv, envToken, pc, req, token, exchanges, sentAuth, sentVars,
          response, result, reply, arg, ret, log, exitCode>>

----------------------------------------------------------------------------
(* Bounds of the model *)

\* token lengths tried: within LenMargin of the lengths the patterns accept
LenMargin == 1
\* page sizes tried: within FirstMargin of the limits 1 and 100
FirstMargin == 1
\* an upstream response reports at most MaxErrors errors
MaxErrors == 2
\* a page of the upstream holds at most MaxNodes items
MaxNodes == 2
\* the page size tried together with the optional arguments
MidFirst == 50

----------------------------------------------------------------------------
(* Characters and strings *)

Lower == {"a","b","c","d","e","f","g","h","i","j","k","l","m",
          "n","o","p","q","r","s","t","u","v","w","x","y","z"}
Upper == {"A","B","C","D","E","F","G","H","I","J","K","L","M",
          "N","O","P","Q","R","S","T","U","V","W","X","Y","Z"}
Digit == {"0","1","2","3","4","5","6","7","8","9"}
LineTerminator == {"\n", "\r"}

\* the string made of n copies of the character c
Rep(c, n) == [i \in 1..n |-> c]

\* s starts with p
StartsWith(s, p) ==
    /\ Len(s) >= Len(p)
    /\ \A i \in 1..Len(p) : s[i] = p[i]

\* s without its first n characters
Drop(s, n) == [i \in 1..(Len(s) - n) |-> s[i + n]]

\* a JavaScript value that is undefined, where a string is expected
undefined == <<"undefined">>

\* JavaScript truthiness of an optional string
Falsy(s) == s = undefined \/ s = <<>>

----------------------------------------------------------------------------
(* src/utils/auth.ts *)

\* new GraphQLError(message, { extensions: { code } })
GraphQLError(kind, code, message) ==
    [cls |-> "GraphQLError", kind |-> kind, code |-> code, message |-> message]

\* new Error(message), or an error raised by the runtime or the HTTP client:
\* it has no extensions.code
PlainError(cls, kind, message) ==
    [cls |-> cls, kind |-> kind, code |-> "none", message |-> message]

NoError == [cls |-> "none", kind |-> "none", code |-> "none", message |-> <<>>]

NewPrefix == <<"g", "h", "p", "_">>
NewBodyLen == 36
ClassicLen == 40

\* the pattern without its end anchor: /^ghp_[a-zA-Z0-9]{36}/
newTokenPattern_unanchored(t) ==
    /\ Len(t) >= Len(NewPrefix) + NewBodyLen
    /\ StartsWith(t, NewPrefix)
    /\ \A i \in (Len(NewPrefix) + 1)..(Len(NewPrefix) + NewBodyLen) :
           t[i] \in Lower \cup Upper \cup Digit

\* /^ghp_[a-zA-Z0-9]{36}$/
newTokenPattern(t) ==
    /\ Len(t) = Len(NewPrefix) + NewBodyLen
    /\ StartsWith(t, NewPrefix)
    /\ \A i \in (Len(NewPrefix) + 1)..Len(t) : t[i] \in Lower \cup Upper \cup Digit

\* /^[a-f0-9]{40}$/
classicTokenPattern(t) ==
    /\ Len(t) = ClassicLen
    /\ \A i \in 1..Len(t) : t[i] \in {"a", "b", "c", "d", "e", "f"} \cup Digit

validateGitHubToken(t) ==
    IF Falsy(t) THEN FALSE
    ELSE newTokenPattern(t) \/ classicTokenPattern(t)

BearerPrefix == <<"B", "e", "a", "r", "e", "r", " ">>

\* authorization.match(/^Bearer (.+)$/): the captured group, or undefined
BearerMatch(authorization) ==
    IF /\ StartsWith(authorization, BearerPrefix)
       /\ Len(authorization) > Len(BearerPrefix)
       /\ \A i \in (Len(BearerPrefix) + 1)..Len(authorization) :
              authorization[i] \notin LineTerminator
    THEN Drop(authorization, Len(BearerPrefix))
    ELSE undefined

\* the two ways a call ends: it returns a value or throws an error
Returned(v) == [ok |-> TRUE, value |-> v, error |-> NoError]
Thrown(e) == [ok |-> FALSE, value |-> [t |-> "undefined"], error |-> e]

\* extractTokenFromHeader without the format validation of the token
extractTokenFromHeader_unvalidated(authorization) ==
    IF Falsy(authorization)
    THEN Thrown(GraphQLError("Unauthenticated", "UNAUTHENTICATED",
                             <<"Authorization header required">>))
    ELSE IF BearerMatch(authorization) = undefined
    THEN Thrown(GraphQLError("Unauthenticated", "UNAUTHENTICATED",
             <<"Invalid authorization header format. Expected: Bearer <token>">>))
    ELSE Returned(BearerMatch(authorization))

extractTokenFromHeader(authorization) ==
    IF Falsy(authorization)
    THEN Thrown(GraphQLError("Unauthenticated", "UNAUTHENTICATED",
                             <<"Authorization header required">>))
    ELSE IF BearerMatch(authorization) = undefined
    THEN Thrown(GraphQLError("Unauthenticated", "UNAUTHENTICATED",
             <<"Invalid authorization header format. Expected: Bearer <token>">>))
    ELSE IF ~validateGitHubToken(BearerMatch(authorization))
    THEN Thrown(GraphQLError("Unauthenticated", "UNAUTHENTICATED",
                             <<"Invalid GitHub token format">>))
    ELSE Returned(BearerMatch(authorization))

\* the part of getGitHubToken after the header was tried
envFallback(env) ==
    IF Falsy(env)
    THEN Thrown(GraphQLError("Unauthenticated", "UNAUTHENTICATED",
                             <<"GitHub token not provided">>))
    ELSE IF ~validateGitHubToken(env)
    THEN Thrown(GraphQLError("Unauthenticated", "UNAUTHENTICATED",
                             <<"Invalid GitHub token in environment variable">>))
    ELSE Returned(env)

\* getGitHubToken trying the environment before the header
getGitHubToken_envFirst(authorization, env) ==
    IF envFallback(env).ok THEN envFallback(env)
    ELSE extractTokenFromHeader(authorization)

\* getGitHubToken without the catch around the header extraction
getGitHubToken_noFallback(authorization, env) ==
    IF ~Falsy(authorization) THEN extractTokenFromHeader(authorization)
    ELSE envFallback(env)

getGitHubToken(authorization, env) ==
    IF ~Falsy(authorization) /\ extractTokenFromHeader(authorization).ok
    THEN extractTokenFromHeader(authorization)
    ELSE envFallback(env)

\* { Authorization: `Bearer ${token}` }, or a throw
createAuthHeader(t) ==
    IF ~validateGitHubToken(t)
    THEN Thrown(GraphQLError("Unauthenticated", "UNAUTHENTICATED",
                             <<"Invalid GitHub token format">>))
    ELSE Returned(BearerPrefix \o t)

----------------------------------------------------------------------------
(* Values exchanged with the upstream and with the caller *)

Null == [t |-> "null"]
Undef == [t |-> "undefined"]

\* obj with the field f set to v
SetField(obj, f, v) ==
    [g \in DOMAIN obj \cup {f} |-> IF g = f THEN v ELSE obj[g]]

ListOps == {"repositories", "issues", "pullRequests", "commits"}
EntityOps == {"user", "organization", "repository"}
Ops == EntityOps \cup ListOps \cup {"health"}

\* a Connection page holding the given nodes and edges
Connection(nodes, edges) ==
    [t |-> "obj", totalCount |-> Len(nodes), nodes |-> nodes, edges |-> edges]

\* the i-th repository of a page, with the fields the queries select for
\* `nodes`; nwo tells whether the upstream sent nameWithOwner
RepoNode(i, nwo) ==
    IF nwo
    THEN [t |-> "obj", id |-> <<"R", ToString(i)>>, name |-> <<"repo", ToString(i)>>,
          nameWithOwner |-> <<"octocat", "/", "repo", ToString(i)>>]
    ELSE [t |-> "obj", id |-> <<"R", ToString(i)>>, name |-> <<"repo", ToString(i)>>]

\* edges { cursor node { id name } } of GetRepositories
RepoEdge(i) ==
    [cursor |-> <<"cursor", ToString(i)>>,
     node |-> [t |-> "obj", id |-> <<"R", ToString(i)>>,
               name |-> <<"repo", ToString(i)>>]]

\* the i-th issue or pull request of a page: repository { id name
\* nameWithOwner url owner { id login } } is its back-reference
IssueNode(i) ==
    [t |-> "obj", id |-> <<"I", ToString(i)>>, number |-> i,
     repository |-> [t |-> "obj", id |-> <<"R", "1">>, name |-> <<"hello">>,
                     nameWithOwner |-> <<"octocat", "/", "hello">>,
                     url |-> <<"https://github.com/", "octocat", "/", "hello">>,
                     owner |-> [t |-> "obj", id |-> <<"U", "1">>,
                                login |-> "octocat"]]]

\* edges { cursor node { id number } } of GetIssues and GetPullRequests
IssueEdge(i) ==
    [cursor |-> <<"cursor", ToString(i)>>,
     node |-> [t |-> "obj", id |-> <<"I", ToString(i)>>, number |-> i]]

\* the i-th commit of a page; carriesRepo tells whether the upstream node
\* already has a `repository` member
CommitNode(i, carriesRepo) ==
    IF carriesRepo
    THEN [t |-> "obj", id |-> <<"C", ToString(i)>>, oid |-> <<"oid", ToString(i)>>,
          repository |-> [t |-> "obj", id |-> <<"R", "9">>, name |-> "upstream",
                          nameWithOwner |-> <<"up", "/", "stream">>]]
    ELSE [t |-> "obj", id |-> <<"C", ToString(i)>>, oid |-> <<"oid", ToString(i)>>]

\* edges { cursor node { id oid } } of GetCommits
CommitEdge(i) ==
    [cursor |-> <<"cursor", ToString(i)>>,
     node |-> [t |-> "obj", id |-> <<"C", ToString(i)>>,
               oid |-> <<"oid", ToString(i)>>]]

\* the pages of k items the upstream can send, k up to MaxNodes
RepoPages ==
    {Connection([i \in 1..k |-> RepoNode(i, nwo)], [i \in 1..k |-> RepoEdge(i)]) :
        k \in 0..MaxNodes, nwo \in BOOLEAN}
IssuePages ==
    {Connection([i \in 1..k |-> IssueNode(i)], [i \in 1..k |-> IssueEdge(i)]) :
        k \in 0..MaxNodes}
CommitPages ==
    {Connection([i \in 1..k |-> CommitNode(i, c)], [i \in 1..k |-> CommitEdge(i)]) :
        k \in 0..MaxNodes, c \in BOOLEAN}

\* the values the upstream can send for the top-level field of an operation
UpstreamRoots(op) ==
    CASE op = "user" ->
           {Null, [t |-> "obj", id |-> "U1", login |-> "octocat"]}
      [] op = "organization" ->
           {Null,
            [t |-> "obj", id |-> "O1", login |-> "github"],
            [t |-> "obj", id |-> "O1", login |-> "github",
             membersWithRole |-> [t |-> "obj", totalCount |-> 3]]}
      [] op = "repository" -> {Null, RepoNode(1, TRUE), RepoNode(1, FALSE)}
      [] op = "repositories" ->
           {Null} \cup {[t |-> "obj", repositories |-> p] : p \in RepoPages}
      [] op = "issues" ->
           {Null} \cup {[t |-> "obj", issues |-> p] : p \in IssuePages}
      [] op = "pullRequests" ->
           {Null} \cup {[t |-> "obj", pullRequests |-> p] : p \in IssuePages}
      [] op = "commits" ->
           {Null, [t |-> "obj", defaultBranchRef |-> Null]} \cup
           {[t |-> "obj", defaultBranchRef |->
                [t |-> "obj", target |-> [t |-> "obj", history |-> p]]] :
              p \in CommitPages}
      [] op = "health" ->
           {Null, [t |-> "obj", limit |-> 5000, remaining |-> 4999]}

\* a payload with every object on the path present, as sent beside errors
FullRoot(op) ==
    CASE op = "user" -> [t |-> "obj", id |-> "U1", login |-> "octocat"]
      [] op = "organization" ->
           [t |-> "obj", id |-> "O1", login |-> "github",
            membersWithRole |-> [t |-> "obj", totalCount |-> 3]]
      [] op = "repository" -> RepoNode(1, TRUE)
      [] op = "repositories" ->
           [t |-> "obj", repositories |->
               Connection(<<RepoNode(1, TRUE)>>, <<RepoEdge(1)>>)]
      [] op = "issues" ->
           [t |-> "obj", issues |-> Connection(<<IssueNode(1)>>, <<IssueEdge(1)>>)]
      [] op = "pullRequests" ->
           [t |-> "obj", pullRequests |->
               Connection(<<IssueNode(1)>>, <<IssueEdge(1)>>)]
      [] op = "commits" ->
           [t |-> "obj", defaultBranchRef |->
               [t |-> "obj", target |->
                   [t |-> "obj", history |->
                       Connection(<<CommitNode(1, FALSE)>>, <<CommitEdge(1)>>)]]]
      [] op = "health" -> [t |-> "obj", limit |-> 5000, remaining |-> 4999]

\* the messages of the errors an upstream response reports
Messages == {"m1", "m2"}

RECURSIVE SeqsUpTo(_, _)
\* all sequences over S of length at most n
SeqsUpTo(S, n) ==
    IF n = 0 THEN {<<>>}
    ELSE SeqsUpTo(S, n - 1) \cup
         {Append(q, x) : q \in {r \in SeqsUpTo(S, n - 1) : Len(r) = n - 1}, x \in S}

\* the `errors` member of a response body: absent, or a list of messages
ErrorLists ==
    {[present |-> FALSE, list |-> <<>>]} \cup
    {[present |-> TRUE, list |-> l] : l \in SeqsUpTo(Messages, MaxErrors)}

\* the `data` member of a response body: absent (or null), or a payload
DataFor(op) ==
    {[t |-> "absent"]} \cup {[t |-> "data", root |-> r] : r \in UpstreamRoots(op)}

\* what one upstream exchange can end with: a transport failure (network
\* error, time-out, non-2xx status) or a 2xx response body {data?, errors?};
\* a body that reports errors has no data or the full payload, a body that
\* reports none has any of the payloads
UpstreamOutcomes(op) ==
    {[t |-> "transport", status |-> st] : st \in {"network", "http500"}} \cup
    {[t |-> "body", errors |-> e, data |-> d] :
        e \in {x \in ErrorLists : Len(x.list) > 0},
        d \in {[t |-> "absent"], [t |-> "data", root |-> FullRoot(op)]}} \cup
    {[t |-> "body", errors |-> e, data |-> d] :
        e \in {x \in ErrorLists : Len(x.list) = 0}, d \in DataFor(op)}

NoResponse == [t |-> "none"]

----------------------------------------------------------------------------
(* src/services/githubService.ts *)

RECURSIVE Join(_, _)
\* list.join(sep), as the sequence of its text pieces
Join(list, sep) ==
    IF Len(list) = 0 THEN <<>>
    ELSE IF Len(list) = 1 THEN <<list[1]>>
    ELSE <<list[1], sep>> \o Join(Tail(list), sep)

\* what reading a property of null, or `in` applied to null, raises
TypeError == PlainError("TypeError", "TypeError", <<"Cannot read properties of null">>)

\* the rejection of client.post: network error, time-out or non-2xx status
AxiosError(status) == PlainError("AxiosError", "TransportError", <<"Request failed: ", status>>)

\* executeQuery returning the data payload whenever there is one, reported
\* errors or not
executeQuery_partialData(tk, resp) ==
    IF ~createAuthHeader(tk).ok THEN Thrown(createAuthHeader(tk).error)
    ELSE IF resp.t = "transport" THEN Thrown(AxiosError(resp.status))
    ELSE IF resp.data.t # "absent" THEN Returned(resp.data)
    ELSE IF resp.errors.present /\ Len(resp.errors.list) > 0
    THEN Thrown(PlainError("Error", "UpstreamGraphQLError",
                           <<"GraphQL errors: ">> \o Join(resp.errors.list, "; ")))
    ELSE Thrown(PlainError("Error", "UpstreamEmptyResponse",
                           <<"No data returned from GraphQL query">>))

\* executeQuery testing for the data payload before the reported errors
executeQuery_dataFirst(tk, resp) ==
    IF ~createAuthHeader(tk).ok THEN Thrown(createAuthHeader(tk).error)
    ELSE IF resp.t = "transport" THEN Thrown(AxiosError(resp.status))
    ELSE IF resp.data.t = "absent"
    THEN Thrown(PlainError("Error", "UpstreamEmptyResponse",
                           <<"No data returned from GraphQL query">>))
    ELSE IF resp.errors.present /\ Len(resp.errors.list) > 0
    THEN Thrown(PlainError("Error", "UpstreamGraphQLError",
                           <<"GraphQL errors: ">> \o Join(resp.errors.list, "; ")))
    ELSE Returned(resp.data)

\* executeQuery with the outcome of its exchange; createAuthHeader is
\* evaluated before the exchange is issued, and every throw passes through
\* the catch block, which logs and rethrows
executeQuery(tk, resp) ==
    IF ~createAuthHeader(tk).ok THEN Thrown(createAuthHeader(tk).error)
    ELSE IF resp.t = "transport" THEN Thrown(AxiosError(resp.status))
    ELSE IF resp.errors.present /\ Len(resp.errors.list) > 0
    THEN Thrown(PlainError("Error", "UpstreamGraphQLError",
                           <<"GraphQL errors: ">> \o Join(resp.errors.list, "; ")))
    ELSE IF resp.data.t = "absent"
    THEN Thrown(PlainError("Error", "UpstreamEmptyResponse",
                           <<"No data returned from GraphQL query">>))
    ELSE Returned(resp.data)

getUser(variables, tk, resp) ==
    LET data == executeQuery(tk, resp)
    IN  IF ~data.ok THEN data ELSE Returned(data.value.root)

\* a rename instead of a copy: nameWithOwner is removed
withFullName_rename(repo) ==
    IF "nameWithOwner" \in DOMAIN repo
    THEN [g \in (DOMAIN repo \ {"nameWithOwner"}) \cup {"fullName"} |->
             IF g = "fullName" THEN repo.nameWithOwner ELSE repo[g]]
    ELSE repo

\* the nameWithOwner -> fullName copy applied to one repository object
withFullName(repo) ==
    IF "nameWithOwner" \in DOMAIN repo
    THEN SetField(repo, "fullName", repo.nameWithOwner)
    ELSE repo

getRepository(variables, tk, resp) ==
    LET data == executeQuery(tk, resp)
    IN  IF ~data.ok THEN data
        ELSE IF data.value.root = Null THEN Thrown(TypeError)
        ELSE Returned(withFullName(data.value.root))

getRepositories(variables, tk, resp) ==
    LET data == executeQuery(tk, resp)
    IN  IF ~data.ok THEN data
        ELSE IF data.value.root = Null THEN Thrown(TypeError)
        ELSE LET repositories == data.value.root.repositories
             IN  Returned(SetField(repositories, "nodes",
                     [i \in 1..Len(repositories.nodes) |->
                         withFullName(repositories.nodes[i])]))

getIssues(variables, tk, resp) ==
    LET data == executeQuery(tk, resp)
    IN  IF ~data.ok THEN data
        ELSE IF data.value.root = Null THEN Thrown(TypeError)
        ELSE Returned(data.value.root.issues)

getPullRequests(variables, tk, resp) ==
    LET data == executeQuery(tk, resp)
    IN  IF ~data.ok THEN data
        ELSE IF data.value.root = Null THEN Thrown(TypeError)
        ELSE Returned(data.value.root.pullRequests)

\* a synthesized reference whose owner stub also has an id
synthesizedRepository_ownerId(variables) ==
    [t |-> "obj",
     id |-> <<>>,
     name |-> variables.repo,
     fullName |-> <<variables.owner, "/", variables.repo>>,
     url |-> <<"https://github.com/", variables.owner, "/", variables.repo>>,
     owner |-> [t |-> "obj", id |-> <<>>, login |-> variables.owner]]

\* the repository reference getCommits builds from the request arguments
synthesizedRepository(variables) ==
    [t |-> "obj",
     id |-> <<>>,
     name |-> variables.repo,
     fullName |-> <<variables.owner, "/", variables.repo>>,
     url |-> <<"https://github.com/", variables.owner, "/", variables.repo>>,
     owner |-> [t |-> "obj", login |-> variables.owner]]

\* getCommits spreading the commit after the synthesized reference, so that
\* a repository member of the upstream node wins
getCommits_keepUpstream(variables, tk, resp) ==
    LET data == executeQuery(tk, resp)
    IN  IF ~data.ok THEN data
        ELSE IF data.value.root = Null THEN Thrown(TypeError)
        ELSE IF data.value.root.defaultBranchRef = Null THEN Thrown(TypeError)
        ELSE IF data.value.root.defaultBranchRef.target = Null THEN Thrown(TypeError)
        ELSE LET commits == data.value.root.defaultBranchRef.target.history
             IN  Returned(SetField(commits, "nodes",
                     [i \in 1..Len(commits.nodes) |->
                         IF "repository" \in DOMAIN commits.nodes[i]
                         THEN commits.nodes[i]
                         ELSE SetField(commits.nodes[i], "repository",
                                       synthesizedRepository(variables))]))

getCommits(variables, tk, resp) ==
    LET data == executeQuery(tk, resp)
    IN  IF ~data.ok THEN data
        ELSE IF data.value.root = Null THEN Thrown(TypeError)
        ELSE IF data.value.root.defaultBranchRef = Null THEN Thrown(TypeError)
        ELSE IF data.value.root.defaultBranchRef.target = Null THEN Thrown(TypeError)
        ELSE LET commits == data.value.root.defaultBranchRef.target.history
             IN  Returned(SetField(commits, "nodes",
                     [i \in 1..Len(commits.nodes) |->
                         SetField(commits.nodes[i], "repository",
                                  synthesizedRepository(variables))]))

\* getOrganization without the copy
getOrganization_noCopy(variables, tk, resp) ==
    IF ~executeQuery(tk, resp).ok THEN executeQuery(tk, resp)
    ELSE IF executeQuery(tk, resp).value.root = Null THEN Thrown(TypeError)
    ELSE Returned(executeQuery(tk, resp).value.root)

\* the membersWithRole -> members copy
getOrganization(variables, tk, resp) ==
    LET data == executeQuery(tk, resp)
    IN  IF ~data.ok THEN data
        ELSE IF data.value.root = Null THEN Thrown(TypeError)
        ELSE IF "membersWithRole" \in DOMAIN data.value.root
        THEN Returned(SetField(data.value.root, "members",
                               data.value.root.membersWithRole))
        ELSE Returned(data.value.root)

\* healthCheck reporting the status without the rate limit
healthCheck_noRateLimit(tk, resp) ==
    IF executeQuery(tk, resp).ok
    THEN Returned([status |-> "healthy", rateLimit |-> Undef])
    ELSE Returned([status |-> "unhealthy", rateLimit |-> Undef])

\* healthCheck never throws: its own catch turns a failure into a status
healthCheck(tk, resp) ==
    LET data == executeQuery(tk, resp)
    IN  IF data.ok
        THEN Returned([status |-> "healthy", rateLimit |-> data.value.root])
        ELSE Returned([status |-> "unhealthy", rateLimit |-> Undef])

----------------------------------------------------------------------------
(* src/schema/resolvers.ts *)

\* a string field that is present
Str(s) == [t |-> "str", v |-> s]

\* JavaScript truthiness of an optional object or string field
Truthy(x) == x.t = "obj" \/ (x.t = "str" /\ x.v # <<>>)

\* RepositoryOwner.__resolveType
__resolveType(obj) ==
    IF Truthy(obj.membersWithRole) \/ Truthy(obj.members) \/ Truthy(obj.websiteUrl)
    THEN "Organization"
    ELSE "User"

MinFirst == 1
MaxFirst == 100
DefaultFirst == 20

Int32(n) == [t |-> "int", v |-> n]

\* the destructuring default `first = 20`
firstOrDefault(first) == IF first = Undef THEN Int32(DefaultFirst) ELSE first

\* validatePagination without its upper limit
validatePagination_noUpper(first) ==
    IF first # Undef /\ first.v < MinFirst
    THEN Thrown(GraphQLError("InvalidArgument", "BAD_USER_INPUT",
                             <<"first must be between 1 and 100">>))
    ELSE Returned(Undef)

validatePagination(first) ==
    IF first # Undef /\ (first.v < MinFirst \/ first.v > MaxFirst)
    THEN Thrown(GraphQLError("InvalidArgument", "BAD_USER_INPUT",
                             <<"first must be between 1 and 100">>))
    ELSE Returned(Undef)

\* getTokenFromContext replacing the error by one without a code
getTokenFromContext_generic(authorization, env) ==
    IF getGitHubToken(authorization, env).ok
    THEN getGitHubToken(authorization, env)
    ELSE Thrown(PlainError("Error", "Unauthenticated",
             <<"Authentication required. Please provide a valid GitHub token.">>))

\* the error of getGitHubToken is logged and replaced
getTokenFromContext(authorization, env) ==
    IF getGitHubToken(authorization, env).ok
    THEN getGitHubToken(authorization, env)
    ELSE Thrown(GraphQLError("Unauthenticated", "UNAUTHENTICATED",
             <<"Authentication required. Please provide a valid GitHub token.">>))

\* a variables object without the cursor
variablesOf_noAfter(op, args) ==
    CASE op = "repositories" ->
           [owner |-> args.owner, first |-> firstOrDefault(args.first).v,
            after |-> Undef, orderBy |-> args.orderBy]
      [] op \in {"issues", "pullRequests"} ->
           [owner |-> args.owner, repo |-> args.repo,
            first |-> firstOrDefault(args.first).v, after |-> Undef,
            states |-> args.states, orderBy |-> args.orderBy]
      [] op = "commits" ->
           [owner |-> args.owner, repo |-> args.repo,
            first |-> firstOrDefault(args.first).v, after |-> Undef]
      [] op = "health" -> [t |-> "empty"]
      [] OTHER -> [owner |-> args.owner, repo |-> args.repo]

\* the variables object a resolver hands to its translator
variablesOf(op, args) ==
    CASE op = "repositories" ->
           [owner |-> args.owner, first |-> firstOrDefault(args.first).v,
            after |-> args.after, orderBy |-> args.orderBy]
      [] op \in {"issues", "pullRequests"} ->
           [owner |-> args.owner, repo |-> args.repo,
            first |-> firstOrDefault(args.first).v, after |-> args.after,
            states |-> args.states, orderBy |-> args.orderBy]
      [] op = "commits" ->
           [owner |-> args.owner, repo |-> args.repo,
            first |-> firstOrDefault(args.first).v, after |-> args.after]
      [] op = "health" -> [t |-> "empty"]
      [] OTHER -> [owner |-> args.owner, repo |-> args.repo]

\* new Date().toISOString()
Timestamp == "ISO-8601"

\* a catch block that logs and rethrows, as the other resolvers do
healthCaught_rethrow(error) == Thrown(error)

\* the catch block of Query.health: the error is logged and dropped
healthCaught(error) ==
    Returned([status |-> "unhealthy", timestamp |-> Timestamp, rateLimit |-> Null])

\* Query.user, Query.organization, Query.repository after the credential was
\* resolved: the translator's result, whose `id` is read for the log record
Query_entity(op, args, tk, resp) ==
    LET r == CASE op = "user" -> getUser(variablesOf(op, args), tk, resp)
               [] op = "organization" -> getOrganization(variablesOf(op, args), tk, resp)
               [] op = "repository" -> getRepository(variablesOf(op, args), tk, resp)
    IN  IF ~r.ok THEN r
        ELSE IF r.value = Null THEN Thrown(TypeError)
        ELSE r

\* Query.repositories, issues, pullRequests, commits after the credential
\* was resolved and the page size validated
Query_list(op, args, tk, resp) ==
    CASE op = "repositories" -> getRepositories(variablesOf(op, args), tk, resp)
      [] op = "issues" -> getIssues(variablesOf(op, args), tk, resp)
      [] op = "pullRequests" -> getPullRequests(variablesOf(op, args), tk, resp)
      [] op = "commits" -> getCommits(variablesOf(op, args), tk, resp)

\* Query.health after the credential was resolved
Query_health(tk, resp) ==
    LET healthResult == healthCheck(tk, resp)
    IN  IF healthResult.ok
        THEN Returned([status |-> healthResult.value.status,
                       timestamp |-> Timestamp,
                       rateLimit |-> healthResult.value.rateLimit])
        ELSE healthCaught(healthResult.error)

\* a resolver from the point where it holds a credential and valid arguments
resolverBody(op, args, tk, resp) ==
    IF op = "health" THEN Query_health(tk, resp)
    ELSE IF op \in ListOps THEN Query_list(op, args, tk, resp)
    ELSE Query_entity(op, args, tk, resp)

\* a resolver that validates the page size before it resolves the credential
resolverEntry_paginationFirst(op, args, authorization, env) ==
    LET tk == getTokenFromContext(authorization, env)
        vp == IF op \in ListOps
              THEN validatePagination(firstOrDefault(args.first))
              ELSE Returned(Undef)
    IN  IF ~vp.ok
        THEN [await |-> FALSE, token |-> undefined, outcome |-> vp]
        ELSE IF ~tk.ok
        THEN [await |-> FALSE, token |-> undefined,
              outcome |-> IF op = "health" THEN healthCaught(tk.error) ELSE tk]
        ELSE IF ~createAuthHeader(tk.value).ok
        THEN [await |-> FALSE, token |-> tk.value,
              outcome |-> resolverBody(op, args, tk.value, [t |-> "none"])]
        ELSE [await |-> TRUE, token |-> tk.value, outcome |-> Returned(Undef)]

\* a resolver up to the point where it awaits the upstream exchange:
\* credential first, then the page size, then the Authorization header.
\* await = FALSE when it ended before any exchange
resolverEntry(op, args, authorization, env) ==
    LET tk == getTokenFromContext(authorization, env)
        vp == IF op \in ListOps
              THEN validatePagination(firstOrDefault(args.first))
              ELSE Returned(Undef)
    IN  IF ~tk.ok
        THEN [await |-> FALSE, token |-> undefined,
              outcome |-> IF op = "health" THEN healthCaught(tk.error) ELSE tk]
        ELSE IF ~vp.ok
        THEN [await |-> FALSE, token |-> tk.value, outcome |-> vp]
        ELSE IF ~createAuthHeader(tk.value).ok
        THEN [await |-> FALSE, token |-> tk.value,
              outcome |-> resolverBody(op, args, tk.value, [t |-> "none"])]
        ELSE [await |-> TRUE, token |-> tk.value, outcome |-> Returned(Undef)]

----------------------------------------------------------------------------
(* src/server.ts *)

\* the formatted error the server hands to formatError: an error thrown
\* without extensions.code gets the server's default code, and the stack
\* trace is included unless NODE_ENV is production
formattedErrorOf(error, env) ==
    [message |-> error.message,
     code |-> IF error.code = "none" THEN "INTERNAL_SERVER_ERROR" ELSE error.code,
     stacktrace |-> env # "production"]

formatError(formattedError, env) ==
    IF env = "production"
    THEN [message |-> formattedError.message,
          code |-> IF formattedError.code = "none" THEN "INTERNAL_ERROR"
                   ELSE formattedError.code,
          stacktrace |-> FALSE]
    ELSE formattedError

\* the response for the requested field: its data, or null and one error
serverReply(outcome, env) ==
    IF outcome.ok
    THEN [data |-> outcome.value, errors |-> <<>>]
    ELSE [data |-> Null,
          errors |-> <<formatError(formattedErrorOf(outcome.error, env), env)>>]

----------------------------------------------------------------------------
(* src/utils/logger.ts and the log records of each code path *)

\* one record handed to console.error / warn / info / debug
LogEntry(level, message, data, error) ==
    [level |-> level, message |-> message, data |-> data, error |-> error]

\* logger.logError(error, context, data)
logError(error, context, data) ==
    LogEntry("error", context \o <<": ">> \o error.message, data, error)

\* the redaction marker
Mask == <<"B", "e", "a", "r", "e", "r", " ", "*", "*", "*">>

\* sanitizeHeaders masking the lowercase header name only
sanitizeHeaders_lowercaseOnly(headers) ==
    IF headers = Undef THEN Undef
    ELSE [h \in DOMAIN headers |->
             IF h = "authorization" /\ ~Falsy(headers[h]) THEN Mask ELSE headers[h]]

sanitizeHeaders(headers) ==
    IF headers = Undef THEN Undef
    ELSE [h \in DOMAIN headers |->
             IF h \in {"authorization", "Authorization"} /\ ~Falsy(headers[h])
             THEN Mask ELSE headers[h]]

\* logger.logRequest(method, url, headers, body)
logRequest(method, url, headers, body) ==
    LogEntry("info", <<"API Request">>,
             [method |-> method, url |-> url,
              headers |-> sanitizeHeaders(headers), body |-> body],
             NoError)

\* the headers of an upstream exchange: the defaults of the client and the
\* Authorization header of createAuthHeader
configHeaders(tk) ==
    [ContentType |-> <<"application/json">>,
     UserAgent |-> <<"GitHub-GraphQL-API-Proxy/1.0.0">>,
     Authorization |-> createAuthHeader(tk).value]

\* the noun of an operation in the messages of its resolver
Noun(op) ==
    CASE op = "user" -> "user"
      [] op = "organization" -> "organization"
      [] op = "repository" -> "repository"
      [] op = "repositories" -> "repositories"
      [] op = "issues" -> "issues"
      [] op = "pullRequests" -> "pull requests"
      [] op = "commits" -> "commits"
      [] op = "health" -> "health"

\* the plugin hooks didReceiveRequest and didResolveOperation; a debug
\* record is written unless NODE_ENV is production
requestLog(op, args, nenv) ==
    <<LogEntry("info", <<"GraphQL Request">>, [variables |-> args], NoError)>> \o
    (IF nenv # "production"
     THEN <<LogEntry("debug", <<"GraphQL Operation">>, [operationName |-> op], NoError)>>
     ELSE <<>>)

\* what is written once the resolver ended: didEncounterErrors and
\* formatError for a failure, then didSendResponse
responseLog(outcome) ==
    IF outcome.ok
    THEN <<LogEntry("info", <<"GraphQL Response">>, [errors |-> 0], NoError)>>
    ELSE <<LogEntry("error", <<"GraphQL Errors">>,
                    [errors |-> <<outcome.error.message>>], NoError),
           logError(outcome.error, <<"GraphQL Error">>, Undef),
           LogEntry("info", <<"GraphQL Response">>, [errors |-> 1], NoError)>>

\* the response interceptor of the client
interceptorLog(resp) ==
    CASE resp.t = "none" -> <<>>
      [] resp.t = "transport" /\ resp.status = "network" ->
           <<logError(AxiosError(resp.status), <<"Network Error">>, Undef)>>
      [] resp.t = "transport" /\ resp.status # "network" ->
           <<logError(PlainError("Error", "HttpError", <<"HTTP ", resp.status>>),
                      <<"API Response Error">>, [status |-> resp.status])>>
      [] resp.t = "body" ->
           <<LogEntry("info", <<"API Response">>, [statusCode |-> 200], NoError)>>

\* the records a resolver and its translator write once the exchange ended
\* (or was never issued): the interceptor, the catch block of executeQuery,
\* the catch block of healthCheck or the resolver's own record, the reply
bodyLog(op, args, tk, resp) ==
    LET data == executeQuery(tk, resp)
        outcome == resolverBody(op, args, tk, resp)
    IN  interceptorLog(resp) \o
        (IF ~data.ok
         THEN <<logError(data.error, <<"GraphQL Query Execution">>,
                         [variables |-> variablesOf(op, args)])>>
         ELSE <<>>) \o
        (IF op = "health"
         THEN IF ~data.ok
              THEN <<logError(data.error, <<"Health check failed">>, Undef)>>
              ELSE <<>>
         ELSE IF outcome.ok
         THEN <<LogEntry("info", <<Noun(op), " fetched successfully">>,
                         [args |-> args], NoError)>>
         ELSE <<logError(outcome.error, <<"Failed to fetch ", Noun(op)>>,
                         [args |-> args])>>) \o
        responseLog(outcome)

\* the records written from the arrival of a request until its resolver
\* awaits the exchange or ends
entryLog(op, args, authorization, env, nenv) ==
    LET st == resolverEntry(op, args, authorization, env)
        tk == getGitHubToken(authorization, env)
        vp == IF op \in ListOps
              THEN validatePagination(firstOrDefault(args.first))
              ELSE Returned(Undef)
    IN  requestLog(op, args, nenv) \o
        (IF ~tk.ok
         THEN <<logError(tk.error, <<"Token extraction failed">>, Undef)>> \o
              (IF op = "health"
               THEN <<logError(getTokenFromContext(authorization, env).error,
                               <<"Health check failed">>, Undef)>>
               ELSE <<>>) \o
              responseLog(st.outcome)
         ELSE IF ~vp.ok THEN responseLog(st.outcome)
         ELSE (IF op = "health" THEN <<>>
               ELSE <<LogEntry("info", <<"Fetching ", Noun(op)>>,
                               [args |-> args], NoError)>>) \o
              (IF st.await
               THEN <<logRequest("POST", "", configHeaders(tk.value),
                                 [variables |-> variablesOf(op, args)])>>
               ELSE bodyLog(op, args, tk.value, [t |-> "none"])))

----------------------------------------------------------------------------
(* Startup: validateEnvironment and startServer of the entry point *)

Running == [t |-> "running"]
Exited(code) == [t |-> "exited", code |-> code]

\* validateEnvironment logging the missing variable without exiting
validateEnvironment_noExit(env) ==
    [exit |-> FALSE,
     log |-> IF Falsy(env)
             THEN <<LogEntry("error", <<"Missing required environment variables">>,
                             [missingVars |-> <<"GITHUB_TOKEN">>], NoError)>>
             ELSE <<LogEntry("info", <<"Environment validation passed">>,
                             Undef, NoError)>>]

\* validateEnvironment: process.exit(1) when GITHUB_TOKEN is unset or empty
validateEnvironment(env) ==
    IF Falsy(env)
    THEN [exit |-> TRUE,
          log |-> <<LogEntry("error", <<"Missing required environment variables">>,
                             [missingVars |-> <<"GITHUB_TOKEN">>], NoError)>>]
    ELSE [exit |-> FALSE,
          log |-> <<LogEntry("info", <<"Environment validation passed">>,
                             Undef, NoError)>>]

\* startServer: the environment is validated, then the server is started;
\* listening tells whether startApolloServer succeeded
startServer(env, listening) ==
    LET v == validateEnvironment(env)
    IN  IF v.exit
        THEN [pc |-> "exited", exitCode |-> Exited(1), log |-> v.log]
        ELSE IF ~listening
        THEN [pc |-> "exited", exitCode |-> Exited(1),
              log |-> v.log \o
                      <<LogEntry("info", <<"Starting Apollo Server...">>, Undef, NoError),
                        logError(PlainError("Error", "StartupError", <<"listen failed">>),
                                 <<"Failed to start server">>, Undef)>>]
        ELSE [pc |-> "idle", exitCode |-> Running,
              log |-> v.log \o
                      <<LogEntry("info", <<"Starting Apollo Server...">>, Undef, NoError),
                        LogEntry("info", <<"Server started successfully">>, Undef, NoError),
                        LogEntry("info", <<"Server configuration">>, Undef, NoError)>>]

----------------------------------------------------------------------------
(* Inputs *)

NewLens == (NewBodyLen - LenMargin)..(NewBodyLen + LenMargin)
ClassicLens == (ClassicLen - LenMargin)..(ClassicLen + LenMargin)

\* "a" is lowercase hex, "7" a digit, "G" alphanumeric but not lowercase
\* hex, "_" not alphanumeric
TokenInputs ==
    {NewPrefix \o Rep("a", n) : n \in NewLens} \cup
    {NewPrefix \o Rep(c, NewBodyLen) : c \in {"G", "_"}} \cup
    {Rep("a", n) : n \in ClassicLens} \cup
    {Rep(c, ClassicLen) : c \in {"7", "G"}} \cup
    {<<"g", "h", "P", "_">> \o Rep("a", NewBodyLen)}

ValidNew == NewPrefix \o Rep("a", NewBodyLen)
ValidClassic == Rep("a", ClassicLen)

\* the inbound Authorization header: absent, empty, `Bearer ` with each
\* token, and headers with another scheme word or separator around a
\* valid token
HeaderInputs ==
    {undefined, <<>>, BearerPrefix} \cup
    {BearerPrefix \o t : t \in TokenInputs} \cup
    {<<"b", "e", "a", "r", "e", "r", " ">> \o ValidNew,
     <<"B", "e", "a", "r", "e", "r">> \o ValidNew,
     <<"T", "o", "k", "e", "n", " ">> \o ValidClassic,
     BearerPrefix \o <<" ">> \o ValidClassic,
     BearerPrefix \o ValidNew \o <<"\n">>}

\* GITHUB_TOKEN: unset, empty, valid in either format, or invalid
EnvInputs ==
    {undefined, <<>>, ValidClassic, NewPrefix \o Rep("G", NewBodyLen),
     Rep("a", ClassicLen - 1), NewPrefix \o Rep("a", NewBodyLen + 1)}

FirstInputs ==
    {Undef} \cup
    {Int32(n) : n \in ((MinFirst - FirstMargin)..MinFirst) \cup
                      (MaxFirst..(MaxFirst + FirstMargin))}

\* the optional arguments of the list operations, when the caller supplies
\* them: a cursor, a state filter, an ordering
AfterInput == Str(<<"cursor1">>)
StatesInput == [t |-> "list", v |-> <<"OPEN">>]
OrderByInput == [t |-> "obj", field |-> "CREATED_AT", direction |-> "DESC"]

\* the arguments of a request: owner and repo (two pairs for commits, whose
\* translator computes with them), each page size without the optional
\* arguments, and the page size MidFirst with every optional argument the
\* operation accepts
ArgInputs(op) ==
    IF op = "commits"
    THEN {[owner |-> a[1], repo |-> a[2], first |-> f,
           after |-> Undef, states |-> Undef, orderBy |-> Undef] :
             a \in {<<"octocat", "hello">>, <<"github", "docs">>}, f \in FirstInputs}
         \cup {[owner |-> "octocat", repo |-> "hello", first |-> Int32(MidFirst),
                after |-> AfterInput, states |-> Undef, orderBy |-> Undef]}
    ELSE [owner : {"octocat"}, repo : {"hello"},
          first : IF op \in ListOps THEN FirstInputs ELSE {Undef},
          after : {Undef}, states : {Undef}, orderBy : {Undef}]
         \cup (IF op \in ListOps
               THEN {[owner |-> "octocat", repo |-> "hello",
                      first |-> Int32(MidFirst), after |-> AfterInput,
                      states |-> IF op = "repositories" THEN Undef ELSE StatesInput,
                      orderBy |-> OrderByInput]}
               ELSE {})

----------------------------------------------------------------------------
(* The state machine *)

Pending == [ok |-> FALSE, value |-> Undef, error |-> NoError]
NoReply == [data |-> Undef, errors |-> <<>>]
NoRequest == [op |-> "none", authorization |-> undefined,
              args |-> [owner |-> "none", repo |-> "none", first |-> Undef,
                        after |-> Undef, states |-> Undef, orderBy |-> Undef]]
NoOwner == [login |-> "none", membersWithRole |-> Undef, members |-> Undef,
            websiteUrl |-> Undef, description |-> Undef, email |-> Undef]
NoArg == [fn |-> "none", token |-> undefined, owner |-> NoOwner,
          upstreamType |-> "none"]

Init ==
    /\ nodeEnv \in {"production", "development", "staging"}
    /\ envToken \in EnvInputs
    /\ pc = "starting"
    /\ req = NoRequest
    /\ token = undefined
    /\ exchanges = 0
    /\ sentAuth = undefined
    /\ sentVars = Undef
    /\ response = NoResponse
    /\ result = Pending
    /\ reply = NoReply
    /\ arg = NoArg
    /\ ret = Pending
    /\ log = <<>>
    /\ exitCode = Running

\* startServer runs once, when the process starts
Start(listening) ==
    /\ pc = "starting"
    /\ pc' = startServer(envToken, listening).pc
    /\ exitCode' = startServer(envToken, listening).exitCode
    /\ log' = startServer(envToken, listening).log
    /\ UNCHANGED <<nodeEnv, envToken, req, token, exchanges, sentAuth, sentVars,
                   response, result, reply, arg, ret>>

\* an inbound request runs its resolver until the resolver ends or awaits
\* the upstream exchange it issued
Invoke(op, authorization, args) ==
    /\ pc = "idle"
    /\ LET st == resolverEntry(op, args, authorization, envToken)
       IN  /\ req' = [op |-> op, authorization |-> authorization, args |-> args]
           /\ token' = st.token
           /\ response' = NoResponse
           /\ IF st.await
              THEN /\ pc' = "awaiting"
                   /\ exchanges' = 1
                   /\ sentAuth' = createAuthHeader(st.token).value
                   /\ sentVars' = variablesOf(op, args)
                   /\ result' = Pending
                   /\ reply' = NoReply
              ELSE /\ pc' = "replied"
                   /\ exchanges' = 0
                   /\ sentAuth' = undefined
                   /\ sentVars' = Undef
                   /\ result' = st.outcome
                   /\ reply' = serverReply(st.outcome, nodeEnv)
    /\ log' = entryLog(op, args, authorization, envToken, nodeEnv)
    /\ UNCHANGED <<nodeEnv, envToken, arg, ret, exitCode>>

\* a resolver that issues the exchange once more after a transport failure
Resume_retry(resp) ==
    /\ pc = "awaiting"
    /\ response' = resp
    /\ IF resp.t = "transport" /\ exchanges < 2
       THEN /\ pc' = "awaiting"
            /\ exchanges' = exchanges + 1
            /\ UNCHANGED <<result, reply, log>>
       ELSE /\ result' = resolverBody(req.op, req.args, token, resp)
            /\ reply' = serverReply(resolverBody(req.op, req.args, token, resp), nodeEnv)
            /\ pc' = "replied"
            /\ log' = log \o bodyLog(req.op, req.args, token, resp)
            /\ UNCHANGED exchanges
    /\ UNCHANGED <<nodeEnv, envToken, req, token, sentAuth, sentVars,
                   arg, ret, exitCode>>

\* the upstream exchange ends and the resolver runs to its end
Resume(resp) ==
    /\ pc = "awaiting"
    /\ response' = resp
    /\ result' = resolverBody(req.op, req.args, token, resp)
    /\ reply' = serverReply(resolverBody(req.op, req.args, token, resp), nodeEnv)
    /\ pc' = "replied"
    /\ log' = log \o bodyLog(req.op, req.args, token, resp)
    /\ UNCHANGED <<nodeEnv, envToken, req, token, exchanges, sentAuth, sentVars,
                   arg, ret, exitCode>>

\* the reply was delivered: nothing of the request outlives it
Finish ==
    /\ pc = "replied"
    /\ pc' = "idle"
    /\ req' = NoRequest
    /\ token' = undefined
    /\ exchanges' = 0
    /\ sentAuth' = undefined
    /\ sentVars' = Undef
    /\ response' = NoResponse
    /\ result' = Pending
    /\ reply' = NoReply
    /\ log' = <<>>
    /\ UNCHANGED <<nodeEnv, envToken, arg, ret, exitCode>>

Next ==
    \/ \E listening \in BOOLEAN : Start(listening)
    \/ \E op \in Ops, authorization \in HeaderInputs :
          \E args \in ArgInputs(op) : Invoke(op, authorization, args)
    \/ /\ pc = "awaiting"
       /\ \E resp \in UpstreamOutcomes(req.op) : Resume(resp)
    \/ Finish

Spec == Init /\ [][Next]_vars

----------------------------------------------------------------------------
(* The pure functions applied on their own: validateGitHubToken over     *)
(* tokens, RepositoryOwner.__resolveType over owner payloads              *)

\* a valid token with the character at position p replaced by c
Spoiled(t, p, c) == [t EXCEPT ![p] = c]

\* "7" is a digit, "G" alphanumeric but not lowercase hex, "g" a lowercase
\* letter that is not hex, "_" and the line feed not alphanumeric
SpoilChars == {"7", "G", "g", "_", "\n"}

TokenProbes ==
    {undefined, <<>>} \cup TokenInputs \cup
    {Spoiled(ValidNew, p, c) : p \in 1..Len(ValidNew), c \in SpoilChars} \cup
    {Spoiled(ValidClassic, p, c) : p \in 1..Len(ValidClassic), c \in SpoilChars} \cup
    {ValidNew \o <<"\n">>, ValidClassic \o <<"\n">>,
     <<" ">> \o ValidNew, <<" ">> \o ValidClassic,
     NewPrefix, NewPrefix \o ValidClassic}

\* an owner payload: each organization-related field is absent, null or
\* present; a string field is present empty or with text
ObjectFieldValues == {Undef, Null, [t |-> "obj"]}
StringFieldValues == {Undef, Null, Str(<<>>), Str(<<"x">>)}

OwnerProbes ==
    [login : {"octocat"},
     membersWithRole : ObjectFieldValues,
     members : ObjectFieldValues,
     websiteUrl : StringFieldValues,
     description : StringFieldValues,
     email : StringFieldValues]

\* the owner of a repository when the upstream resolved it as an
\* Organization: the fields of `... on Organization`, each present or null;
\* upstreamType records the upstream's type beside the payload, which does
\* not carry it
NullableString == {Null, Str(<<"x">>)}

OrganizationOwners ==
    [login : {"github"},
     membersWithRole : {Undef},
     members : {Undef},
     name : NullableString,
     description : NullableString,
     email : NullableString,
     websiteUrl : NullableString,
     avatarUrl : NullableString,
     url : NullableString,
     createdAt : NullableString,
     updatedAt : NullableString]

InitPure ==
    /\ nodeEnv = "production"
    /\ envToken = undefined
    /\ pc = "call"
    /\ req = NoRequest
    /\ token = undefined
    /\ exchanges = 0
    /\ sentAuth = undefined
    /\ sentVars = Undef
    /\ response = NoResponse
    /\ result = Pending
    /\ reply = NoReply
    /\ arg \in [fn : {"validateGitHubToken"}, token : TokenProbes,
                owner : {NoOwner}, upstreamType : {"none"}]
               \cup [fn : {"__resolveType"}, token : {undefined},
                     owner : OwnerProbes, upstreamType : {"unknown"}]
               \cup [fn : {"__resolveType"}, token : {undefined},
                     owner : OrganizationOwners, upstreamType : {"Organization"}]
    /\ ret = Pending
    /\ log = <<>>
    /\ exitCode = Running

ValidateToken ==
    /\ pc = "call"
    /\ arg.fn = "validateGitHubToken"
    /\ ret' = Returned(validateGitHubToken(arg.token))
    /\ pc' = "returned"
    /\ UNCHANGED <<nodeEnv, envToken, req, token, exchanges, sentAuth, sentVars,
                   response, result, reply, arg, log, exitCode>>

ResolveType ==
    /\ pc = "call"
    /\ arg.fn = "__resolveType"
    /\ ret' = Returned(__resolveType(arg.owner))
    /\ pc' = "returned"
    /\ UNCHANGED <<nodeEnv, envToken, req, token, exchanges, sentAuth, sentVars,
                   response, result, reply, arg, log, exitCode>>

NextPure == ValidateToken \/ ResolveType

SpecPure == InitPure /\ [][NextPure]_vars

----------------------------------------------------------------------------
(* Requests handled concurrently by the one service instance: every       *)
(* variable of a request is a function over the requests in flight         *)

Requests == {1, 2}

\* a service that keeps the credential of the first request that resolved
\* one and sends it for every exchange
authorizationFor_shared(tokens, r) ==
    LET holders == {q \in DOMAIN tokens : tokens[q] # undefined}
    IN  createAuthHeader(tokens[CHOOSE q \in holders : \A p \in holders : q <= p]).value

\* headers: createAuthHeader(token), with the token passed to executeQuery
authorizationFor(tokens, r) == createAuthHeader(tokens[r]).value

ConcOps == {"user", "commits", "health"}

\* no header, and two headers with different valid tokens
ConcHeaders ==
    {undefined, BearerPrefix \o ValidNew,
     BearerPrefix \o NewPrefix \o Rep("G", NewBodyLen)}

ConcArgs(op) == {a \in ArgInputs(op) : a.first = Undef}

\* a transport failure, a body that reports an error, a body with data
ConcOutcomes(op) ==
    {[t |-> "transport", status |-> "network"],
     [t |-> "body", errors |-> [present |-> TRUE, list |-> <<"m1">>],
      data |-> [t |-> "absent"]],
     [t |-> "body", errors |-> [present |-> FALSE, list |-> <<>>],
      data |-> [t |-> "data", root |-> FullRoot(op)]]}

InitConc ==
    /\ nodeEnv = "production"
    /\ envToken \in {ValidClassic, Rep("a", ClassicLen - 1)}
    /\ pc = [r \in Requests |-> "idle"]
    /\ req = [r \in Requests |-> NoRequest]
    /\ token = [r \in Requests |-> undefined]
    /\ exchanges = [r \in Requests |-> 0]
    /\ sentAuth = [r \in Requests |-> undefined]
    /\ sentVars = [r \in Requests |-> Undef]
    /\ response = [r \in Requests |-> NoResponse]
    /\ result = [r \in Requests |-> Pending]
    /\ reply = [r \in Requests |-> NoReply]
    /\ arg = NoArg
    /\ ret = Pending
    /\ log = [r \in Requests |-> <<>>]
    /\ exitCode = Running

\* request r arrives and runs its resolver until it ends or awaits
InvokeC(r, op, authorization, args) ==
    /\ pc[r] = "idle"
    /\ LET st == resolverEntry(op, args, authorization, envToken)
       IN  /\ req' = [req EXCEPT ![r] = [op |-> op, authorization |-> authorization,
                                         args |-> args]]
           /\ token' = [token EXCEPT ![r] = st.token]
           /\ IF st.await
              THEN /\ pc' = [pc EXCEPT ![r] = "awaiting"]
                   /\ exchanges' = [exchanges EXCEPT ![r] = 1]
                   /\ sentAuth' = [sentAuth EXCEPT ![r] =
                           authorizationFor([token EXCEPT ![r] = st.token], r)]
                   /\ sentVars' = [sentVars EXCEPT ![r] = variablesOf(op, args)]
                   /\ UNCHANGED <<result, reply>>
              ELSE /\ pc' = [pc EXCEPT ![r] = "replied"]
                   /\ result' = [result EXCEPT ![r] = st.outcome]
                   /\ reply' = [reply EXCEPT ![r] = serverReply(st.outcome, nodeEnv)]
                   /\ UNCHANGED <<exchanges, sentAuth, sentVars>>
    /\ log' = [log EXCEPT ![r] = entryLog(op, args, authorization, envToken, nodeEnv)]
    /\ UNCHANGED <<nodeEnv, envToken, response, arg, ret, exitCode>>

\* the exchange of request r ends and its resolver runs to its end
ResumeC(r, resp) ==
    /\ pc[r] = "awaiting"
    /\ response' = [response EXCEPT ![r] = resp]
    /\ result' = [result EXCEPT ![r] =
                     resolverBody(req[r].op, req[r].args, token[r], resp)]
    /\ reply' = [reply EXCEPT ![r] =
                    serverReply(resolverBody(req[r].op, req[r].args, token[r], resp),
                                nodeEnv)]
    /\ pc' = [pc EXCEPT ![r] = "replied"]
    /\ log' = [log EXCEPT ![r] = @ \o bodyLog(req[r].op, req[r].args, token[r], resp)]
    /\ UNCHANGED <<nodeEnv, envToken, req, token, exchanges, sentAuth, sentVars,
                   arg, ret, exitCode>>

NextConc ==
    \/ \E r \in Requests, op \in ConcOps, authorization \in ConcHeaders :
          \E args \in ConcArgs(op) : InvokeC(r, op, authorization, args)
    \/ \E r \in Requests :
          /\ pc[r] = "awaiting"
          /\ \E resp \in ConcOutcomes(req[r].op) : ResumeC(r, resp)

SpecConc == InitConc /\ [][NextConc]_vars

----------------------------------------------------------------------------
(* Properties *)

Replied == pc = "replied"
Failed == Replied /\ ~result.ok
FailedWith(kind, code) ==
    /\ Failed
    /\ result.error.kind = kind
    /\ Len(reply.errors) = 1
    /\ reply.errors[1].code = code
    /\ reply.data = Null

FirstOutOfRange ==
    /\ req.op \in ListOps
    /\ req.args.first # Undef
    /\ (req.args.first.v < 1 \/ req.args.first.v > 100)

\* the response body reports at least one error
ErrorsReported ==
    /\ response.t = "body"
    /\ response.errors.present
    /\ Len(response.errors.list) >= 1

\* the response body has a data payload and reports no error
CleanData ==
    /\ response.t = "body"
    /\ ~ErrorsReported
    /\ response.data.t = "data"

\* C1 as stated: a list operation called with `first` outside [1,100] fails
\* with InvalidArgument (BAD_USER_INPUT) and issues no upstream exchange
C1_AlwaysInvalidArgument ==
    FirstOutOfRange =>
        /\ exchanges = 0
        /\ pc # "awaiting"
        /\ Replied => FailedWith("InvalidArgument", "BAD_USER_INPUT")

\* C1 amended: a list operation called with `first` outside [1,100] issues
\* no upstream exchange; it fails with InvalidArgument (BAD_USER_INPUT) when
\* a credential was resolved and with Unauthenticated when none was
C1_InvalidArgumentOnceAuthenticated ==
    FirstOutOfRange =>
        /\ exchanges = 0
        /\ pc # "awaiting"
        /\ Replied /\ token # undefined =>
               FailedWith("InvalidArgument", "BAD_USER_INPUT")
        /\ Replied /\ token = undefined =>
               FailedWith("Unauthenticated", "UNAUTHENTICATED")

C1_Witness ==
    /\ Replied
    /\ req.op = "issues"
    /\ req.args.first = Int32(MaxFirst + 1)
    /\ token # undefined
    /\ FailedWith("InvalidArgument", "BAD_USER_INPUT")
    /\ exchanges = 0

\* the messages of list, in order, with "; " between neighbours, after the
\* pieces of prefix
IsJoined(message, prefix, list) ==
    /\ Len(message) = Len(prefix) + 2 * Len(list) - 1
    /\ \A i \in 1..Len(prefix) : message[i] = prefix[i]
    /\ \A i \in 1..Len(list) : message[Len(prefix) + 2 * i - 1] = list[i]
    /\ \A i \in 1..(Len(list) - 1) : message[Len(prefix) + 2 * i] = "; "

C3_HealthNeverFails ==
    Replied /\ req.op = "health" =>
        /\ result.ok
        /\ reply.errors = <<>>
        /\ {"status", "timestamp"} \subseteq DOMAIN reply.data
        /\ reply.data.status \in {"healthy", "unhealthy"}
        /\ reply.data.timestamp = Timestamp

C3_Witness ==
    /\ Replied
    /\ req.op = "health"
    /\ response.t = "transport"
    /\ result.ok
    /\ reply.data.status = "unhealthy"

\* C4: health is "healthy" with the upstream's rateLimit iff a credential
\* was resolved and the one exchange returned data without errors;
\* otherwise it is "unhealthy" without a rate limit, and without a usable
\* credential it is {unhealthy, rateLimit: null} and no exchange is issued
C4_HealthyIffCleanExchange ==
    Replied /\ req.op = "health" /\ result.ok =>
        /\ reply.data.status = "healthy" <=> (token # undefined /\ CleanData)
        /\ reply.data.status = "healthy" =>
               /\ reply.data.rateLimit = response.data.root
               /\ exchanges = 1
        /\ reply.data.status # "healthy" =>
               /\ reply.data.status = "unhealthy"
               /\ reply.data.rateLimit \in {Null, Undef}
        /\ token = undefined =>
               /\ reply.data.status = "unhealthy"
               /\ reply.data.rateLimit = Null
               /\ exchanges = 0

C4_Witness ==
    /\ Replied
    /\ req.op = "health"
    /\ result.ok
    /\ reply.data.status = "healthy"
    /\ reply.data.rateLimit # Null
    /\ reply.data.rateLimit = response.data.root

\* C5: a user, organization or repository that the upstream resolves to
\* null is returned as null, without any error
C5_NotFoundIsNull ==
    Replied /\ req.op \in EntityOps /\ CleanData /\ response.data.root = Null =>
        /\ result.ok
        /\ reply.data = Null
        /\ reply.errors = <<>>

\* the header has the form `Bearer <nonempty>`
BearerForm(h) == StartsWith(h, BearerPrefix) /\ Len(h) > Len(BearerPrefix)

\* the header has the form `Bearer <token>` with a token the validator accepts
WellFormedHeader(h) ==
    BearerForm(h) /\ validateGitHubToken(Drop(h, Len(BearerPrefix)))

\* C6: a resolved credential, and so the credential of an upstream
\* Authorization header, always satisfies the token validator; with a header
\* not of the form `Bearer <nonempty>` the request is unauthenticated or
\* uses the valid environment credential
C6_ResolvedTokenIsValid ==
    /\ token # undefined => validateGitHubToken(token)
    /\ sentAuth # undefined =>
           /\ BearerForm(sentAuth)
           /\ validateGitHubToken(Drop(sentAuth, Len(BearerPrefix)))
           /\ Drop(sentAuth, Len(BearerPrefix)) = token
    /\ req.op # "none" /\ ~BearerForm(req.authorization) =>
           \/ token = undefined
           \/ token = envToken /\ validateGitHubToken(envToken)

C6_Witness ==
    /\ pc = "awaiting"
    /\ ~Falsy(req.authorization)
    /\ ~BearerForm(req.authorization)
    /\ token = envToken
    /\ sentAuth = BearerPrefix \o envToken

\* C7: a well-formed header (`Bearer ` and a token the validator accepts)
\* decides the credential, whatever the fallback credential is
C7_HeaderTakesPrecedence ==
    req.op # "none" /\ WellFormedHeader(req.authorization) =>
        token = Drop(req.authorization, Len(BearerPrefix))

C7_Witness ==
    /\ req.op # "none"
    /\ WellFormedHeader(req.authorization)
    /\ validateGitHubToken(envToken)
    /\ envToken # Drop(req.authorization, Len(BearerPrefix))
    /\ token = Drop(req.authorization, Len(BearerPrefix))

\* C8: with a header that is present but fails extraction, resolution
\* falls back to the environment credential: it yields that credential iff
\* it is set and valid, and otherwise fails with Unauthenticated
C8_BadHeaderFallsBack ==
    req.op # "none" /\ ~Falsy(req.authorization)
                    /\ ~WellFormedHeader(req.authorization) =>
        IF ~Falsy(envToken) /\ validateGitHubToken(envToken)
        THEN token = envToken
        ELSE /\ token = undefined
             /\ Replied
             /\ req.op # "health" => FailedWith("Unauthenticated", "UNAUTHENTICATED")

C8_Witness ==
    /\ req.op = "user"
    /\ req.authorization = <<"b", "e", "a", "r", "e", "r", " ">> \o ValidNew
    /\ token = envToken
    /\ token # undefined

\* C9: a non-health operation whose credential resolution fails (no header
\* and no or an invalid fallback, or a bad header without usable fallback)
\* fails with the code UNAUTHENTICATED
C9_ResolutionFailureIsUnauthenticated ==
    Replied /\ req.op # "health" /\ token = undefined =>
        /\ FailedWith("Unauthenticated", "UNAUTHENTICATED")
        /\ exchanges = 0

C9_Witness ==
    /\ Replied
    /\ req.op = "commits"
    /\ req.authorization = undefined
    /\ ~Falsy(envToken)
    /\ token = undefined
    /\ reply.errors[1].code = "UNAUTHENTICATED"

ErrorKinds == {"Unauthenticated", "InvalidArgument", "UpstreamGraphQLError",
               "UpstreamEmptyResponse", "TransportError"}

\* an error of the given kind, as the code raises it
ErrorOfKind(kind) ==
    CASE kind = "Unauthenticated" -> getTokenFromContext(undefined, undefined).error
      [] kind = "InvalidArgument" -> validatePagination(Int32(MinFirst - 1)).error
      [] kind = "UpstreamGraphQLError" ->
           executeQuery(ValidClassic,
               [t |-> "body", errors |-> [present |-> TRUE, list |-> <<"m1">>],
                data |-> [t |-> "absent"]]).error
      [] kind = "UpstreamEmptyResponse" ->
           executeQuery(ValidClassic,
               [t |-> "body", errors |-> [present |-> FALSE, list |-> <<>>],
                data |-> [t |-> "absent"]]).error
      [] kind = "TransportError" ->
           executeQuery(ValidClassic, [t |-> "transport", status |-> "network"]).error

\* the code with which a failure of the given kind reaches the caller
CodeOfKind(kind) ==
    formatError(formattedErrorOf(ErrorOfKind(kind), nodeEnv), nodeEnv).code

\* C10: every failure kind reaches the caller with a code of its own: the
\* code of a failure is never the code that another kind carries
C10_CodeIdentifiesKind ==
    Failed /\ result.error.kind \in ErrorKinds =>
        /\ Len(reply.errors) = 1
        /\ reply.errors[1].code = CodeOfKind(result.error.kind)
        /\ \A other \in ErrorKinds \ {result.error.kind} :
               reply.errors[1].code # CodeOfKind(other)

\* C11: a response with no data payload fails with UpstreamEmptyResponse
\* when it reports no error (errors absent or an empty list), and with
\* UpstreamGraphQLError when it reports errors
C11_EmptyResponseOnlyWithoutErrors ==
    Replied /\ req.op # "health" /\ response.t = "body"
            /\ response.data.t = "absent" =>
        /\ Failed
        /\ reply.data = Null
        /\ ErrorsReported => result.error.kind = "UpstreamGraphQLError"
        /\ ~ErrorsReported => result.error.kind = "UpstreamEmptyResponse"

C11_Witness ==
    /\ Replied
    /\ req.op = "organization"
    /\ response.t = "body"
    /\ response.errors.present
    /\ response.errors.list = <<>>
    /\ response.data.t = "absent"
    /\ Failed
    /\ result.error.kind = "UpstreamEmptyResponse"

\* a list operation returned its page
PageReturned == Replied /\ req.op \in ListOps /\ result.ok

\* the page the upstream sent for the list operation
UpstreamPage ==
    CASE req.op = "repositories" -> response.data.root.repositories
      [] req.op = "issues" -> response.data.root.issues
      [] req.op = "pullRequests" -> response.data.root.pullRequests
      [] req.op = "commits" -> response.data.root.defaultBranchRef.target.history

\* C12: in every Connection a list operation returns, edges and nodes have
\* the same length and edges[i].node is identical to nodes[i]
C12_EdgesMirrorNodes ==
    PageReturned =>
        /\ Len(reply.data.edges) = Len(reply.data.nodes)
        /\ \A i \in 1..Len(reply.data.nodes) :
               reply.data.edges[i].node = reply.data.nodes[i]

\* C13: the repository operation and every node of a repositories page
\* return fullName equal to the upstream's nameWithOwner whenever the
\* upstream sends it, and nameWithOwner stays in place
C13_FullNameIsNameWithOwner ==
    /\ Replied /\ req.op = "repository" /\ result.ok
               /\ "nameWithOwner" \in DOMAIN response.data.root =>
           /\ {"fullName", "nameWithOwner"} \subseteq DOMAIN reply.data
           /\ reply.data.fullName = response.data.root.nameWithOwner
           /\ reply.data.nameWithOwner = response.data.root.nameWithOwner
    /\ PageReturned /\ req.op = "repositories" =>
           /\ Len(reply.data.nodes) = Len(UpstreamPage.nodes)
           /\ \A i \in 1..Len(UpstreamPage.nodes) :
                  "nameWithOwner" \in DOMAIN UpstreamPage.nodes[i] =>
                      /\ {"fullName", "nameWithOwner"} \subseteq
                             DOMAIN reply.data.nodes[i]
                      /\ reply.data.nodes[i].fullName =
                             UpstreamPage.nodes[i].nameWithOwner
                      /\ reply.data.nodes[i].nameWithOwner =
                             UpstreamPage.nodes[i].nameWithOwner

C13_Witness ==
    /\ PageReturned
    /\ req.op = "repositories"
    /\ Len(reply.data.nodes) = 2
    /\ "fullName" \in DOMAIN reply.data.nodes[2]
    /\ reply.data.nodes[2].fullName = <<"octocat", "/", "repo", "2">>
    /\ reply.data.nodes[2].nameWithOwner = <<"octocat", "/", "repo", "2">>

\* the upstream sent a repository object without nameWithOwner
NameWithOwnerMissing ==
    /\ CleanData
    /\ response.data.root # Null
    /\ \/ req.op = "repository" /\ "nameWithOwner" \notin DOMAIN response.data.root
       \/ /\ req.op = "repositories"
          /\ \E i \in 1..Len(UpstreamPage.nodes) :
                 "nameWithOwner" \notin DOMAIN UpstreamPage.nodes[i]

\* C14: a repository payload without the combined owner/name field makes
\* the operation fail, instead of returning a repository without fullName
C14_MissingNameWithOwnerFails ==
    Replied /\ req.op \in {"repository", "repositories"}
            /\ NameWithOwnerMissing => Failed

\* C15: every node of a commits page has a repository reference built from
\* the request arguments: name = repo, fullName = owner/repo,
\* url = https://github.com/owner/repo, owner.login = owner, whatever the
\* upstream node contains
C15_CommitRepositoryFromArguments ==
    PageReturned /\ req.op = "commits" =>
        /\ Len(reply.data.nodes) = Len(UpstreamPage.nodes)
        /\ \A i \in 1..Len(reply.data.nodes) :
               /\ "repository" \in DOMAIN reply.data.nodes[i]
               /\ reply.data.nodes[i].repository.name = req.args.repo
               /\ reply.data.nodes[i].repository.fullName =
                      <<req.args.owner, "/", req.args.repo>>
               /\ reply.data.nodes[i].repository.url =
                      <<"https://github.com/", req.args.owner, "/", req.args.repo>>
               /\ reply.data.nodes[i].repository.owner.login = req.args.owner
               /\ reply.data.nodes[i].oid = UpstreamPage.nodes[i].oid

C15_Witness ==
    /\ PageReturned
    /\ req.op = "commits"
    /\ req.args.owner = "github"
    /\ Len(UpstreamPage.nodes) = 2
    /\ "repository" \in DOMAIN UpstreamPage.nodes[1]
    /\ reply.data.nodes[1].repository.fullName = <<"github", "/", "docs">>

\* the members of an object, its type tag aside
Members(obj) == DOMAIN obj \ {"t"}

\* C16 as stated: the synthesized repository of a commit node has only
\* name, fullName, url and an owner stub with only login; id is absent
C16_OnlyNameFullNameUrlOwner ==
    PageReturned /\ req.op = "commits" =>
        \A i \in 1..Len(reply.data.nodes) :
            /\ Members(reply.data.nodes[i].repository) =
                   {"name", "fullName", "url", "owner"}
            /\ Members(reply.data.nodes[i].repository.owner) = {"login"}

\* C16 amended: the synthesized repository of a commit node has only id,
\* which is the empty string, name, fullName, url and an owner stub with
\* only login
C16_OnlyEmptyIdNameFullNameUrlOwner ==
    PageReturned /\ req.op = "commits" =>
        \A i \in 1..Len(reply.data.nodes) :
            /\ Members(reply.data.nodes[i].repository) =
                   {"id", "name", "fullName", "url", "owner"}
            /\ reply.data.nodes[i].repository.id = <<>>
            /\ Members(reply.data.nodes[i].repository.owner) = {"login"}

C16_Witness ==
    /\ PageReturned
    /\ req.op = "commits"
    /\ Len(reply.data.nodes) = 1
    /\ reply.data.nodes[1].repository.id = <<>>
    /\ Members(reply.data.nodes[1].repository.owner) = {"login"}

\* C17: the repository back-reference of every issues node and every
\* pullRequests node has fullName equal to the upstream's nameWithOwner
C17_BackReferenceHasFullName ==
    PageReturned /\ req.op \in {"issues", "pullRequests"} =>
        \A i \in 1..Len(reply.data.nodes) :
            /\ "fullName" \in DOMAIN reply.data.nodes[i].repository
            /\ reply.data.nodes[i].repository.fullName =
                   UpstreamPage.nodes[i].repository.nameWithOwner

\* C18: the organization operation returns members equal to the upstream's
\* membersWithRole whenever the upstream payload carries it
C18_MembersIsMembersWithRole ==
    Replied /\ req.op = "organization" /\ result.ok
            /\ "membersWithRole" \in DOMAIN response.data.root =>
        /\ "members" \in DOMAIN reply.data
        /\ reply.data.members = response.data.root.membersWithRole
        /\ reply.data.id = response.data.root.id

C18_Witness ==
    /\ Replied
    /\ req.op = "organization"
    /\ result.ok
    /\ "members" \in DOMAIN reply.data
    /\ reply.data.members = [t |-> "obj", totalCount |-> 3]

\* the function applied on its own has returned
Applied(fn) == pc = "returned" /\ arg.fn = fn

\* the payload carries a field: it is present with a non-empty value
Carries(x) == Truthy(x)

\* the organization-only markers the classification is described by
OrganizationMarker(obj) ==
    \/ Carries(obj.membersWithRole) \/ Carries(obj.members)
    \/ Carries(obj.websiteUrl)
    \/ (Carries(obj.description) /\ ~Carries(obj.email))

\* C19: owner type resolution returns "Organization" when the payload
\* carries a members field, a website field or a description without an
\* email, and "User" in every other case
C19_OrganizationIffMarker ==
    Applied("__resolveType") =>
        ret = Returned(IF OrganizationMarker(arg.owner)
                       THEN "Organization" ELSE "User")

HexLower == {"0","1","2","3","4","5","6","7","8","9","a","b","c","d","e","f"}
Alphanumeric == Lower \cup Upper \cup Digit

\* `ghp_` followed by exactly 36 alphanumeric characters
IsNewFormat(t) ==
    /\ Len(t) = 40
    /\ SubSeq(t, 1, 4) = <<"g", "h", "p", "_">>
    /\ Len(SelectSeq(SubSeq(t, 5, 40), LAMBDA c : c \in Alphanumeric)) = 36

\* exactly 40 lowercase-hex characters
IsClassicFormat(t) ==
    /\ Len(t) = 40
    /\ Len(SelectSeq(t, LAMBDA c : c \in HexLower)) = 40

Contains(s, sub) ==
    /\ Len(sub) > 0
    /\ \E i \in 0..(Len(s) - Len(sub)) : \A j \in 1..Len(sub) : s[i + j] = sub[j]

\* the raw credentials in play: the fallback, the one the inbound header
\* carries and the one resolved for the request
RawCredentials ==
    {envToken, BearerMatch(req.authorization), token} \ {undefined, <<>>}

\* the record logs the headers of an exchange
LogsHeaders(rec) ==
    "headers" \in DOMAIN rec.data /\ rec.data.headers # Undef

\* the texts of a log record: its message, the message of its error and
\* the values of the headers it logs
Texts(rec) ==
    {rec.message, rec.error.message} \cup
    (IF LogsHeaders(rec)
     THEN {rec.data.headers[h] : h \in DOMAIN rec.data.headers}
     ELSE {})

\* C21: no log record, on any path, holds a raw credential; a logged
\* Authorization header is the constant masked form `Bearer ***`
C21_NoRawCredentialInLog ==
    \A i \in 1..Len(log) :
        /\ \A txt \in Texts(log[i]), c \in RawCredentials : ~Contains(txt, c)
        /\ LogsHeaders(log[i]) => log[i].data.headers.Authorization = Mask

\* a request whose exchange failed: its headers were logged, masked, and
\* the failure was logged as an error
C21_Witness ==
    /\ Failed
    /\ exchanges = 1
    /\ validateGitHubToken(token)
    /\ \E i \in 1..Len(log) : LogsHeaders(log[i])
    /\ \E i \in 1..Len(log) : log[i].level = "error"

\* C22: in every deployment mode other than development the failure
\* payload holds the message and the code only, without a stack trace; in
\* development mode it is the full formatted error, unchanged
C22_SanitizedUnlessDevelopment ==
    Failed =>
        IF nodeEnv # "development"
        THEN /\ ~reply.errors[1].stacktrace
             /\ reply.errors[1].message = result.error.message
        ELSE reply.errors[1] = formattedErrorOf(result.error, nodeEnv)

\* the page size of the request is omitted or within the limits
FirstInRange ==
    \/ req.args.first = Undef
    \/ (req.args.first.v >= 1 /\ req.args.first.v <= 100)

\* the names of the variables each list operation sends
SentNames(op) ==
    CASE op = "repositories" -> {"owner", "first", "after", "orderBy"}
      [] op \in {"issues", "pullRequests"} ->
           {"owner", "repo", "first", "after", "states", "orderBy"}
      [] op = "commits" -> {"owner", "repo", "first", "after"}

\* C23: a list operation holding a credential issues its exchange iff
\* `first` is omitted or in [1,100], and is rejected as an invalid argument
\* otherwise; the variables sent are the caller's arguments unchanged, with
\* 20 for an omitted `first`
C23_ArgumentsPassThrough ==
    req.op \in ListOps /\ pc \in {"awaiting", "replied"} /\ token # undefined =>
        /\ FirstInRange <=> exchanges = 1
        /\ ~FirstInRange => FailedWith("InvalidArgument", "BAD_USER_INPUT")
        /\ exchanges = 1 =>
              /\ DOMAIN sentVars = SentNames(req.op)
              /\ \A n \in SentNames(req.op) \ {"first"} : sentVars[n] = req.args[n]
              /\ sentVars.first = IF req.args.first = Undef THEN 20
                                  ELSE req.args.first.v

\* an exchange was issued for issues with a cursor, a state filter and an
\* ordering
C23_Witness ==
    /\ req.op = "issues"
    /\ exchanges = 1
    /\ req.args.after = AfterInput
    /\ sentVars.after = AfterInput
    /\ sentVars.states = StatesInput
    /\ sentVars.first = MidFirst

\* C24: a request issues at most one upstream exchange, exactly one once
\* its credential is resolved and its page size valid, and none after the
\* exchange has failed
C24_AtMostOneExchange ==
    /\ exchanges <= 1
    /\ pc \in {"awaiting", "replied"} /\ token # undefined
          /\ (req.op \in ListOps => FirstInRange) => exchanges = 1
    /\ pc = "awaiting" => response = NoResponse /\ exchanges = 1
    /\ Replied /\ response # NoResponse => exchanges = 1

\* the single exchange of a request failed in transport and the request
\* has ended
C24_Witness ==
    /\ Failed
    /\ response.t = "transport"
    /\ exchanges = 1

\* the credential that the header and the fallback of request r resolve to
OwnCredential(r) == getGitHubToken(req[r].authorization, envToken)

\* C25: under every interleaving of two requests, the exchange of each
\* carries `Bearer ` and the credential resolved for that request, and its
\* outcome is the one its own arguments, credential and upstream response
\* give
C25_RequestsAreIsolated ==
    \A r \in Requests :
        /\ exchanges[r] = 1 =>
              /\ OwnCredential(r).ok
              /\ token[r] = OwnCredential(r).value
              /\ sentAuth[r] = BearerPrefix \o OwnCredential(r).value
              /\ sentVars[r] = variablesOf(req[r].op, req[r].args)
        /\ pc[r] = "replied" /\ exchanges[r] = 1 =>
              result[r] = resolverBody(req[r].op, req[r].args,
                                       OwnCredential(r).value, response[r])
        /\ pc[r] = "replied" /\ exchanges[r] = 0 =>
              result[r] = resolverEntry(req[r].op, req[r].args,
                                        req[r].authorization, envToken).outcome

\* request 2 arrived with its own credential and ended while the exchange
\* of request 1, which carries another credential, was in flight
C25_Witness ==
    /\ pc[1] = "awaiting"
    /\ pc[2] = "replied"
    /\ exchanges[2] = 1
    /\ result[2].ok
    /\ token[1] # token[2]
    /\ sentAuth[1] = BearerPrefix \o token[1]
    /\ sentAuth[2] = BearerPrefix \o token[2]

\* the result of the translator a non-health operation invokes
TranslatorResult ==
    CASE req.op = "user" -> getUser(sentVars, token, response)
      [] req.op = "organization" -> getOrganization(sentVars, token, response)
      [] req.op = "repository" -> getRepository(sentVars, token, response)
      [] req.op = "repositories" -> getRepositories(sentVars, token, response)
      [] req.op = "issues" -> getIssues(sentVars, token, response)
      [] req.op = "pullRequests" -> getPullRequests(sentVars, token, response)
      [] req.op = "commits" -> getCommits(sentVars, token, response)

\* the resolver's record of error e precedes the record formatError writes
\* when the server handles the raised error
RecordedBeforeRaised(e) ==
    \E i, j \in 1..Len(log) :
        /\ i < j
        /\ log[i] = logError(e, <<"Failed to fetch ", Noun(req.op)>>,
                             [args |-> req.args])
        /\ log[j] = logError(e, <<"GraphQL Error">>, Undef)

\* C26: a non-health operation returns the result of its translator
\* unchanged when the translator succeeds, and when the translator fails it
\* records the error and then raises that same error
C26_DispatcherPassesThrough ==
    Replied /\ req.op # "health" /\ exchanges = 1 =>
        IF TranslatorResult.ok
        THEN result = TranslatorResult
        ELSE /\ result = TranslatorResult
             /\ RecordedBeforeRaised(TranslatorResult.error)

\* the process is accepting requests
Serving == pc \in {"idle", "awaiting", "replied"}

\* the server was started: its start was logged
StartAttempted ==
    \E i \in 1..Len(log) : log[i].message = <<"Starting Apollo Server...">>

\* C27: the process accepts requests only if GITHUB_TOKEN was non-empty at
\* startup; when it is missing the process exits with code 1 and the server
\* is never started
C27_NoTokenNoServer ==
    /\ Serving => ~Falsy(envToken) /\ exitCode = Running
    /\ Falsy(envToken) /\ pc # "starting" =>
          pc = "exited" /\ exitCode = Exited(1) /\ ~StartAttempted

\* the process was started without GITHUB_TOKEN and has exited
C27_Witness ==
    /\ envToken = undefined
    /\ pc = "exited"
    /\ exitCode = Exited(1)
    /\ log[1].message = <<"Missing required environment variables">>

\* C28: a list operation for which no usable credential exists fails with
\* Unauthenticated and issues no exchange, whatever the value of `first`
C28_CredentialBeforePageSize ==
    Replied /\ req.op \in ListOps
            /\ ~getGitHubToken(req.authorization, envToken).ok =>
        /\ FailedWith("Unauthenticated", "UNAUTHENTICATED")
        /\ exchanges = 0
        /\ response = NoResponse

\* a request for repositories with `first` below the limits and without a
\* usable credential has failed as unauthenticated
C28_Witness ==
    /\ Replied
    /\ req.op = "repositories"
    /\ req.args.first = Int32(MinFirst - 1)
    /\ ~getGitHubToken(req.authorization, envToken).ok
    /\ FailedWith("Unauthenticated", "UNAUTHENTICATED")
    /\ exchanges = 0

\* C29: an owner the upstream returned as an Organization is classified
\* "Organization", whichever of the selected owner fields are null
C29_OrganizationOwnerIsOrganization ==
    Applied("__resolveType") /\ arg.upstreamType = "Organization" =>
        ret = Returned("Organization")

\* the exchange returned a data payload and reported no error
DataWithoutErrors ==
    /\ response.t = "body"
    /\ response.data.t = "data"
    /\ ~(response.errors.present /\ Len(response.errors.list) > 0)

\* C30: a list operation whose exchange returned a data payload and no
\* reported errors completes without raising an error, also when an object
\* on the path to the page is null
C30_DataWithoutErrorsCompletes ==
    Replied /\ req.op \in ListOps /\ DataWithoutErrors => result.ok

====
